---- MODULE Spec2Model ----
(***************************************************************************)
(* vard / prompt-guard: the detection-and-mitigation pipeline.             *)
(*                                                                         *)
(* A text is a sequence of tokens; each token stands for the literal       *)
(* piece of text written in its name, so that concatenating the tokens of  *)
(* a sequence gives the input string.  The tokens are chosen so that the   *)
(* regular expressions of the catalog match a concatenation only at token  *)
(* boundaries:                                                             *)
(*    "<sy" "stem>"            together the XML-style tag <system>         *)
(*    "ig" "nore all rules"    together the phrase "ignore all rules"      *)
(*    "start over"             the phrase of the 0.75 instruction pattern  *)
(*    " "                      a blank                                     *)
(*    "@@"                     a string only a custom delimiter matches    *)
(*    "hi"                     a word only a custom pattern matches        *)
(*    "RLO"                    U+202E, the right-to-left override          *)
(*    "HI"                     the word "hi" in upper case                 *)
(*    "ZWSP"                   U+200B, the zero-width space                *)
(*    "SYSTEM" ":" "-"         a role word in capitals, a colon, a dash    *)
(*    " malicious content"     the rest of a documented example            *)
(* and, for the inputs of the sanitizers,                                  *)
(*    "\\x41"                   one hex escape sequence (4 characters)      *)
(*    "&#1;"                   one HTML entity (4 characters)              *)
(*    "[HEX_REMOVED]" "[ENTITY_REMOVED]"   the placeholders                *)
(* Severities and thresholds are in hundredths (0.8 is 80).                *)
(***************************************************************************)
EXTENDS Integers, Sequences, FiniteSets, TLC

\* ---- bounds of the model ----
MaxLen == 3
MaxShort == 2
MaxDepth == 6
MaxBuilders == 3
SmallLength == 5
MaxRun == 6
MaxThreats == 2
MaxTargeted == 3

\* ---- types (src/src/types.ts) ----
ThreatType == {"instructionOverride", "roleManipulation", "delimiterInjection",
               "systemPromptLeak", "encoding"}

ThreatAction == {"block", "sanitize", "warn", "allow"}

\* ---- texts ----
CoreAlphabet == {"<sy", "stem>", "ig", "nore all rules", " "}

Alphabet == CoreAlphabet \cup {"start over", "@@", "hi", "RLO"}

\* number of UTF-16 code units of the text a token stands for
Width(tok) ==
  CASE tok = "<sy" -> 3
    [] tok = "stem>" -> 5
    [] tok = "ig" -> 2
    [] tok = "nore all rules" -> 14
    [] tok = " " -> 1
    [] tok = "start over" -> 10
    [] tok = "@@" -> 2
    [] tok = "hi" -> 2
    [] tok = "RLO" -> 1
    [] tok = "HI" -> 2
    [] tok = "SYSTEM" -> 6
    [] tok = ":" -> 1
    [] tok = "-" -> 1
    [] tok = "\\x41" -> 4
    [] tok = "&#1;" -> 4
    [] tok = "[HEX_REMOVED]" -> 13
    [] tok = "[ENTITY_REMOVED]" -> 16
    [] tok = "ZWSP" -> 1
    [] tok = " malicious content" -> 18

\* the token's first / last character is a word character (\w)
StartsWord(tok) ==
  tok \in {"stem>", "ig", "nore all rules", "start over", "hi", "HI", "SYSTEM"}

EndsWord(tok) ==
  tok \in {"<sy", "ig", "nore all rules", "start over", "hi", "HI", "SYSTEM", "\\x41",
           " malicious content"}

RECURSIVE StrLen(_)
\* String.prototype.length of the text
StrLen(text) == IF text = <<>> THEN 0 ELSE Width(Head(text)) + StrLen(Tail(text))

\* offset (zero-based, in code units) of the i-th token of the text
Offset(text, i) == StrLen(SubSeq(text, 1, i - 1))

\* input.trim() === ""
IsBlank(text) == \A i \in 1..Len(text) : text[i] = " "

\* \b before position i / after position j of the text
BoundaryBefore(text, i) == i = 1 \/ ~EndsWord(text[i - 1])

BoundaryAfter(text, j) == j = Len(text) \/ ~StartsWord(text[j + 1])

RECURSIVE RunLen(_, _, _)
\* length of the run of token tok that starts at position i
RunLen(text, i, tok) ==
  IF i > Len(text) \/ text[i] # tok THEN 0 ELSE 1 + RunLen(text, i + 1, tok)

\* ---- the pattern catalog ----
\* Number of tokens the regular expression matches at position i (0: no match).
MatchLen(regex, text, i) ==
  CASE regex = "ignore" ->
         IF /\ i + 1 <= Len(text)
            /\ text[i] = "ig" /\ text[i + 1] = "nore all rules"
            /\ BoundaryBefore(text, i) /\ BoundaryAfter(text, i + 1)
         THEN 2 ELSE 0
    [] regex = "startOver" ->
         IF text[i] = "start over" /\ BoundaryBefore(text, i) /\ BoundaryAfter(text, i)
         THEN 1 ELSE 0
    [] regex = "xmlTag" ->
         IF i + 1 <= Len(text) /\ text[i] = "<sy" /\ text[i + 1] = "stem>"
         THEN 2 ELSE 0
    [] regex = "bidiRun" -> RunLen(text, i, "RLO")
    [] regex = "bidiChar" -> IF text[i] = "RLO" THEN 1 ELSE 0
    [] regex = "zeroWidth" -> IF text[i] = "ZWSP" THEN 1 ELSE 0
    [] regex = "hi" -> IF text[i] = "hi" THEN 1 ELSE 0
    [] regex = "colonMarker" ->
         LET blanks == RunLen(text, i + 1, " ")
         IN IF /\ text[i] = "SYSTEM" /\ BoundaryBefore(text, i)
               /\ i + blanks + 1 <= Len(text) /\ text[i + blanks + 1] = ":"
            THEN blanks + 2 ELSE 0
    [] regex = "capsRole" ->
         IF text[i] = "SYSTEM" /\ BoundaryBefore(text, i) /\ BoundaryAfter(text, i)
         THEN 1 ELSE 0
    [] regex = "hexRun" ->
         IF RunLen(text, i, "\\x41") >= 5 THEN RunLen(text, i, "\\x41") ELSE 0
    [] regex = "entityRun" ->
         IF RunLen(text, i, "&#1;") >= 5 THEN RunLen(text, i, "&#1;") ELSE 0
    [] OTHER -> 0

\* the patterns of the catalog that can match a text over Alphabet, in catalog order
instructionPatterns ==
  << [regex |-> "ignore", severity |-> 90, type |-> "instructionOverride"],
     [regex |-> "startOver", severity |-> 75, type |-> "instructionOverride"] >>

delimiterPatterns ==
  << [regex |-> "xmlTag", severity |-> 95, type |-> "delimiterInjection"],
     [regex |-> "colonMarker", severity |-> 70, type |-> "delimiterInjection"],
     [regex |-> "capsRole", severity |-> 65, type |-> "delimiterInjection"] >>

encodingPatterns ==
  << [regex |-> "bidiRun", severity |-> 90, type |-> "encoding"] >>

obfuscationPatterns ==
  << [regex |-> "zeroWidth", severity |-> 85, type |-> "encoding"],
     [regex |-> "bidiChar", severity |-> 95, type |-> "encoding"] >>

allPatterns ==
  instructionPatterns \o delimiterPatterns \o encodingPatterns \o obfuscationPatterns

\* ---- detectors ----
RECURSIVE MatchAll(_, _, _)
\* input.matchAll(regex): the non-overlapping matches from position i on, left to right
MatchAll(pattern, text, i) ==
  IF i > Len(text) THEN <<>>
  ELSE LET n == MatchLen(pattern.regex, text, i)
       IN IF n = 0 THEN MatchAll(pattern, text, i + 1)
          ELSE << [type |-> pattern.type,
                   severity |-> pattern.severity,
                   match |-> SubSeq(text, i, i + n - 1),
                   position |-> Offset(text, i)] >>
               \o MatchAll(pattern, text, i + n)

RECURSIVE detectFirstMatch(_, _)
\* detect reporting only the first match of each pattern (a regex without the g flag)
detectFirstMatch(text, patterns) ==
  IF patterns = <<>> THEN <<>>
  ELSE (IF MatchAll(Head(patterns), text, 1) = <<>> THEN <<>>
        ELSE << Head(MatchAll(Head(patterns), text, 1)) >>)
       \o detectFirstMatch(text, Tail(patterns))

RECURSIVE detect(_, _)
detect(text, patterns) ==
  IF patterns = <<>> THEN <<>>
  ELSE MatchAll(Head(patterns), text, 1) \o detect(text, Tail(patterns))

\* the message checkLength puts in the synthetic threat
LengthMessage(maxLength) == "Input exceeds " \o ToString(maxLength) \o " characters"

NoThreat == <<>>

\* checkLength with the comparison input.length >= maxLength
checkLengthInclusive(text, maxLength) ==
  IF StrLen(text) >= maxLength
  THEN << [type |-> "instructionOverride",
           severity |-> 80,
           match |-> << LengthMessage(maxLength) >>,
           position |-> maxLength] >>
  ELSE NoThreat

\* checkLength: a one-element list for the threat, NoThreat for null
checkLength(text, maxLength) ==
  IF StrLen(text) > maxLength
  THEN << [type |-> "instructionOverride",
           severity |-> 80,
           match |-> << LengthMessage(maxLength) >>,
           position |-> maxLength] >>
  ELSE NoThreat

RECURSIVE IndexOf(_, _, _)
\* input.indexOf(needle) from position i on: the position of the first occurrence, 0 for -1
IndexOf(text, needle, i) ==
  IF i + Len(needle) - 1 > Len(text) THEN 0
  ELSE IF SubSeq(text, i, i + Len(needle) - 1) = needle THEN i
  ELSE IndexOf(text, needle, i + 1)

RECURSIVE AllIndexesOf(_, _, _)
\* the positions of the occurrences of needle from position i on, left to right
AllIndexesOf(text, needle, i) ==
  LET index == IndexOf(text, needle, i)
  IN IF index = 0 THEN <<>>
     ELSE << index >> \o AllIndexesOf(text, needle, index + Len(needle))

RECURSIVE detectCustomDelimitersEach(_, _)
\* detectCustomDelimiters pushing one threat for every occurrence of a delimiter
detectCustomDelimitersEach(text, delimiters) ==
  IF delimiters = <<>> THEN <<>>
  ELSE LET found == AllIndexesOf(text, Head(delimiters), 1)
       IN [k \in 1..Len(found) |->
             [type |-> "delimiterInjection",
              severity |-> 95,
              match |-> Head(delimiters),
              position |-> Offset(text, found[k])]]
          \o detectCustomDelimitersEach(text, Tail(delimiters))

RECURSIVE detectCustomDelimiters(_, _)
detectCustomDelimiters(text, delimiters) ==
  IF delimiters = <<>> THEN <<>>
  ELSE LET index == IndexOf(text, Head(delimiters), 1)
       IN (IF index # 0
           THEN << [type |-> "delimiterInjection",
                    severity |-> 95,
                    match |-> Head(delimiters),
                    position |-> Offset(text, index)] >>
           ELSE <<>>)
          \o detectCustomDelimiters(text, Tail(delimiters))

\* ---- sanitizers ----
\* what a sweep puts in the place of a match
Replacement(regex, matched) ==
  CASE regex = "colonMarker" -> << matched[1], "-" >>
    [] regex = "hexRun" -> << "[HEX_REMOVED]" >>
    [] regex = "entityRun" -> << "[ENTITY_REMOVED]" >>
    [] OTHER -> <<>>

RECURSIVE ReplaceAll(_, _, _)
\* text.replace(/regex/g, replacement): every non-overlapping match replaced, one sweep
ReplaceAll(regex, text, i) ==
  IF i > Len(text) THEN <<>>
  ELSE LET n == MatchLen(regex, text, i)
       IN IF n = 0 THEN << text[i] >> \o ReplaceAll(regex, text, i + 1)
          ELSE Replacement(regex, SubSeq(text, i, i + n - 1))
               \o ReplaceAll(regex, text, i + n)

\* Of the five sweeps the bracket sweep and the hash sweep cannot match a
\* text over the tokens (no token holds a bracket marker or a hash).
sanitizeDelimiters(text) ==
  ReplaceAll("capsRole",
             ReplaceAll("colonMarker", ReplaceAll("xmlTag", text, 1), 1), 1)

RECURSIVE ReplaceEach(_, _, _)
\* every single token tok replaced by the placeholder
ReplaceEach(tok, placeholder, text) ==
  IF text = <<>> THEN <<>>
  ELSE << IF Head(text) = tok THEN placeholder ELSE Head(text) >>
       \o ReplaceEach(tok, placeholder, Tail(text))

\* sanitizeEncoding with the quantifier {5,} of the escape sweeps missing
sanitizeEncodingEach(text) ==
  ReplaceEach("&#1;", "[ENTITY_REMOVED]",
              ReplaceEach("\\x41", "[HEX_REMOVED]", ReplaceAll("bidiRun", text, 1)))

\* Of the seven sweeps the null-byte, the combining-mark, the base64 and the
\* unicode-escape sweep cannot match a text over the tokens (no such
\* character, and no run of 40 base64 characters within the bounds).
sanitizeEncoding(text) ==
  ReplaceAll("entityRun",
             ReplaceAll("hexRun", ReplaceAll("bidiRun", text, 1), 1), 1)

RECURSIVE ReplaceEveryOccurrence(_, _)
\* sanitized.replaceAll(needle, ""): every occurrence of the literal removed
ReplaceEveryOccurrence(text, needle) ==
  LET index == IndexOf(text, needle, 1)
  IN IF index = 0 THEN text
     ELSE SubSeq(text, 1, index - 1)
          \o ReplaceEveryOccurrence(SubSeq(text, index + Len(needle), Len(text)), needle)

\* sanitized.replace(needle, ""): the first occurrence of the literal removed
ReplaceFirst(text, needle) ==
  LET index == IndexOf(text, needle, 1)
  IN IF index = 0 THEN text
     ELSE SubSeq(text, 1, index - 1) \o SubSeq(text, index + Len(needle), Len(text))

RECURSIVE RemoveMatched(_, _)
\* sanitizeInstructions, sanitizeRoles, sanitizeLeaks: the same loop
RemoveMatched(text, threats) ==
  IF threats = <<>> THEN text
  ELSE RemoveMatched(
         IF Len(Head(threats).match) > 0
         THEN ReplaceFirst(text, Head(threats).match) ELSE text,
         Tail(threats))

sanitizeByType(text, type, threats) ==
  CASE type = "delimiterInjection" -> sanitizeDelimiters(text)
    [] type = "encoding" -> sanitizeEncoding(text)
    [] type = "instructionOverride" -> RemoveMatched(text, threats)
    [] type = "roleManipulation" -> RemoveMatched(text, threats)
    [] type = "systemPromptLeak" -> RemoveMatched(text, threats)
    [] OTHER -> text

RECURSIVE TypesInOrder(_, _)
\* the keys of the Map threatsByType, in insertion order
TypesInOrder(threats, seen) ==
  IF threats = <<>> THEN <<>>
  ELSE IF Head(threats).type \in seen THEN TypesInOrder(Tail(threats), seen)
  ELSE << Head(threats).type >>
       \o TypesInOrder(Tail(threats), seen \cup {Head(threats).type})

ThreatsOfType(threats, type) == SelectSeq(threats, LAMBDA t : t.type = type)

RECURSIVE SanitizeTypes(_, _, _)
SanitizeTypes(text, types, threats) ==
  IF types = <<>> THEN text
  ELSE SanitizeTypes(
         sanitizeByType(text, Head(types), ThreatsOfType(threats, Head(types))),
         Tail(types), threats)

applySanitizationPass(text, threats) ==
  SanitizeTypes(text, TypesInOrder(threats, {}), threats)

maxIterations == 5

\* sanitize made of one pass and no loop
SanitizeSinglePass(text, threats) == applySanitizationPass(text, threats)

RECURSIVE SanitizeLoop(_, _, _)
\* the while loop of sanitize
SanitizeLoop(text, threats, iterations) ==
  IF iterations >= maxIterations THEN text
  ELSE LET after == applySanitizationPass(text, threats)
       IN IF after = text THEN after
          ELSE SanitizeLoop(after, threats, iterations + 1)

\* sanitize(input, threats) of the detectors
Sanitize(text, threats) == SanitizeLoop(text, threats, 0)

\* ---- configurations ----
STRICT_PRESET ==
  [threshold |-> 50, maxLength |-> 10000,
   customDelimiters |-> <<>>, customPatterns |-> <<>>,
   threatActions |-> [t \in ThreatType |-> "block"]]

MODERATE_PRESET ==
  [threshold |-> 70, maxLength |-> 10000,
   customDelimiters |-> <<>>, customPatterns |-> <<>>,
   threatActions |->
     [t \in ThreatType |->
        IF t \in {"delimiterInjection", "encoding"} THEN "sanitize" ELSE "block"]]

\* the lenient actions with the threshold of the moderate preset
LENIENT_AT_MODERATE_THRESHOLD ==
  [threshold |-> 70, maxLength |-> 10000,
   customDelimiters |-> <<>>, customPatterns |-> <<>>,
   threatActions |->
     [t \in ThreatType |->
        IF t = "roleManipulation" THEN "warn" ELSE "sanitize"]]

LENIENT_PRESET ==
  [threshold |-> 85, maxLength |-> 10000,
   customDelimiters |-> <<>>, customPatterns |-> <<>>,
   threatActions |->
     [t \in ThreatType |->
        IF t = "roleManipulation" THEN "warn" ELSE "sanitize"]]

getPreset(name) ==
  CASE name = "strict" -> STRICT_PRESET
    [] name = "moderate" -> MODERATE_PRESET
    [] name = "lenient" -> LENIENT_PRESET
    [] OTHER -> MODERATE_PRESET

\* ---- categorization ----
RECURSIVE CategorizeStrict(_, _, _)
\* categorizeThreats skipping a threat when severity <= threshold
CategorizeStrict(threats, config, acc) ==
  IF threats = <<>> THEN acc
  ELSE LET threat == Head(threats)
           action == config.threatActions[threat.type]
       IN CategorizeStrict(
            Tail(threats), config,
            IF threat.severity <= config.threshold THEN acc
            ELSE CASE action = "block" ->
                        [acc EXCEPT !.toBlock = Append(@, threat)]
                   [] action = "sanitize" ->
                        [acc EXCEPT !.toSanitize = Append(@, threat)]
                   [] action = "warn" ->
                        [acc EXCEPT !.toWarn = Append(@, threat)]
                   [] OTHER -> acc)

RECURSIVE CategorizeFallthrough(_, _, _)
\* categorizeThreats with the break of case "sanitize" missing
CategorizeFallthrough(threats, config, acc) ==
  IF threats = <<>> THEN acc
  ELSE LET threat == Head(threats)
           action == config.threatActions[threat.type]
       IN CategorizeFallthrough(
            Tail(threats), config,
            IF threat.severity < config.threshold THEN acc
            ELSE CASE action = "block" ->
                        [acc EXCEPT !.toBlock = Append(@, threat)]
                   [] action = "sanitize" ->
                        [acc EXCEPT !.toSanitize = Append(@, threat),
                                    !.toWarn = Append(@, threat)]
                   [] action = "warn" ->
                        [acc EXCEPT !.toWarn = Append(@, threat)]
                   [] OTHER -> acc)

RECURSIVE Categorize(_, _, _)
\* the loop of categorizeThreats over the threat list, acc the three buckets so far
Categorize(threats, config, acc) ==
  IF threats = <<>> THEN acc
  ELSE LET threat == Head(threats)
           action == config.threatActions[threat.type]
       IN Categorize(
            Tail(threats), config,
            IF threat.severity < config.threshold THEN acc
            ELSE CASE action = "block" ->
                        [acc EXCEPT !.toBlock = Append(@, threat)]
                   [] action = "sanitize" ->
                        [acc EXCEPT !.toSanitize = Append(@, threat)]
                   [] action = "warn" ->
                        [acc EXCEPT !.toWarn = Append(@, threat)]
                   [] OTHER -> acc)

categorizeThreats(threats, config) ==
  Categorize(threats, config, [toBlock |-> <<>>, toSanitize |-> <<>>, toWarn |-> <<>>])

\* ---- inputs ----
\* every text of at most n tokens over the alphabet A
Texts(A, n) == UNION {[1..k -> A] : k \in 0..n}

RECURSIVE Repeat(_, _)
Repeat(tok, n) == IF n = 0 THEN <<>> ELSE << tok >> \o Repeat(tok, n - 1)

\* the tag <system> nested in itself d - 1 times: "<sy<system>stem>" is Nested(2)
Nested(d) == Repeat("<sy", d) \o Repeat("stem>", d)

\* src/tests/attacks.test.ts: "IG<SYSTEM>NORE all instructions" and the nested
\* tag with a payload behind it; and texts with threats of several types
AttackCorpus ==
  { << "ig", "<sy", "stem>", "nore all rules" >>,
    << "<sy", "<sy", "stem>", "stem>", "hi" >>,
    << "start over", "RLO", "hi" >>,
    << "<sy", "stem>", "@@", "hi", "RLO" >> }

\* texts with a custom delimiter more than once and in another case
DelimiterCorpus ==
  { << "HI", "@@", "hi", "@@" >>, << "HI", "@@" >>, << "@@", "HI", "hi", "hi" >> }

\* the examples of CONTRIBUTING.md ("SYSTEM: malicious content") and of
\* src/tests/obfuscation.test.ts (a word with zero-width characters in it)
DocCorpus ==
  { << "SYSTEM", ":", " malicious content" >>, << "hi", "ZWSP", "ZWSP", "hi" >> }

\* a whitespace-only text longer than the small maxLength
LongBlank == Repeat(" ", SmallLength + 1)

AllTexts ==
  Texts(CoreAlphabet, MaxLen) \cup Texts(Alphabet, MaxShort)
    \cup {Nested(d) : d \in 1..MaxDepth} \cup AttackCorpus
    \cup DelimiterCorpus \cup DocCorpus \cup {LongBlank}

String(text) == [isString |-> TRUE, text |-> text]

\* a value that is not a string (a number, null, an object)
NotAString == [isString |-> FALSE, text |-> <<>>]

Inputs == {String(text) : text \in AllTexts} \cup {NotAString}

\* the inputs of the calls made while configurations are being derived
Corpus ==
  { String(<< "start over" >>), String(Nested(2)), String(<< "hi", "@@" >>),
    String(<< "ig", "<sy", "stem>", "nore all rules" >>), NotAString }

\* ---- state ----
VARIABLES
  builders,     \* the VardBuilder objects created so far, each its config
  self,         \* the builder the current call is made on (0: no call yet)
  input,        \* the argument of the current call
  pc,           \* where the current call stands
  threats,      \* parse: threats
  buckets,      \* parse: the first categorizeThreats result
  sanitized,    \* sanitize: sanitized (parse: result)
  iterations,   \* sanitize: iterations
  passes,       \* number of applySanitizationPass calls of the current call
  recheck,      \* parse: the second categorizeThreats result
  outcome,      \* what parse did: returned a text or threw
  spResult,     \* what safeParse did with it
  phases,       \* the functions the current call has called, in order
  observer,     \* the warn observer registered with the configuration
  catalog,      \* the module-level allPatterns array and the lastIndex of its regexes
  warned        \* the threats the observer was called with, in call order

vars ==
  << builders, self, input, pc, threats, buckets, sanitized, iterations, passes,
     recheck, outcome, spResult, phases, observer, catalog, warned >>

callVars ==
  << self, input, pc, threats, buckets, sanitized, iterations, passes,
     recheck, outcome, spResult, phases, observer, catalog, warned >>

NoBuckets == [toBlock |-> <<>>, toSanitize |-> <<>>, toWarn |-> <<>>]

Pending == [kind |-> "pending", text |-> <<>>, threats |-> <<>>]

\* return text
Returned(text) == [kind |-> "return", text |-> text, threats |-> <<>>]

\* throw new PromptInjectionError(threats)
ThrownInjection(ths) == [kind |-> "PromptInjectionError", text |-> <<>>, threats |-> ths]

\* throw new TypeError("Input must be a string")
ThrownTypeError == [kind |-> "TypeError", text |-> <<>>, threats |-> <<>>]

\* safeParse with a catch that turns every error into an unsafe result
safeParseCatchAll(parsed) ==
  CASE parsed.kind = "return" ->
         [kind |-> "result", safe |-> TRUE, data |-> parsed.text, threats |-> <<>>]
    [] OTHER ->
         [kind |-> "result", safe |-> FALSE, data |-> <<>>, threats |-> parsed.threats]

\* safeParse: the try/catch around this.parse(input)
safeParse(parsed) ==
  CASE parsed.kind = "return" ->
         [kind |-> "result", safe |-> TRUE, data |-> parsed.text, threats |-> <<>>]
    [] parsed.kind = "PromptInjectionError" ->
         [kind |-> "result", safe |-> FALSE, data |-> <<>>, threats |-> parsed.threats]
    [] OTHER ->
         [kind |-> parsed.kind, safe |-> FALSE, data |-> <<>>, threats |-> <<>>]

\* the patterns and delimiters parse checks under a configuration
\* the catalog as the module loads it: every regular expression at lastIndex 0
CatalogAsLoaded ==
  [patterns |-> allPatterns, lastIndex |-> [k \in DOMAIN allPatterns |-> 0]]

\* [...allPatterns, ...this.config.customPatterns]: a new array per call
allPatternsToCheck(config) == catalog.patterns \o config.customPatterns

DetectAll(text, config) ==
  detect(text, allPatternsToCheck(config))
    \o (IF Len(config.customDelimiters) > 0
        THEN detectCustomDelimiters(text, config.customDelimiters)
        ELSE <<>>)

\* parse ends: its outcome, and what safeParse makes of it
Finish(result) ==
  /\ outcome' = result
  /\ spResult' = safeParse(result)
  /\ pc' = "done"
  /\ UNCHANGED warned

\* ---- the warn observer ----
\* The parse of src/ is the one of v1.0: it categorizes the warnings and calls
\* nobody.  The observer of v1.1.0 (CHANGELOG.md, tests/onwarn.test.ts) is
\* modelled from the contract of the orchestrator: after sanitization and
\* re-validation and before the text is returned, every toWarn threat of the
\* first categorization is handed to the observer, in bucket order.
\*   observer = "none"      no observer registered (the parse of src/)
\*   observer = "records"   an observer that returns
\*   observer = "throws"    an observer that raises an error when called

\* throw of the error the observer raised
ThrownObserverError == [kind |-> "ObserverError", text |-> <<>>, threats |-> <<>>]

\* a dispatch that hands over the first warning only
ObservedFirstOnly(toWarn, obs) ==
  IF obs = "none" \/ toWarn = <<>> THEN <<>> ELSE << Head(toWarn) >>

\* the threats the observer is called with, in call order
Observed(toWarn, obs) ==
  CASE obs = "none" -> <<>>
    [] obs = "throws" -> IF toWarn = <<>> THEN <<>> ELSE << Head(toWarn) >>
    [] OTHER -> toWarn

\* a dispatch wrapped in a try/catch that drops the observer's error
AfterDispatchCaught(text, toWarn, obs) == Returned(text)

\* how parse ends after the dispatch
AfterDispatch(text, toWarn, obs) ==
  IF obs = "throws" /\ Len(toWarn) > 0 THEN ThrownObserverError ELSE Returned(text)

\* parse: the warnings are dispatched and the text is returned
Deliver(text, toWarn) ==
  /\ warned' = Observed(toWarn, observer)
  /\ outcome' = AfterDispatch(text, toWarn, observer)
  /\ spResult' = safeParse(AfterDispatch(text, toWarn, observer))
  /\ pc' = "done"

\* ---- the builder ----
ConfigFields == {"threshold", "maxLength", "customDelimiters", "customPatterns", "threatActions"}

\* constructor: { ...getPreset("moderate"), ...config }
VardBuilder(partial) ==
  [f \in ConfigFields |->
     IF f \in DOMAIN partial THEN partial[f] ELSE getPreset("moderate")[f]]

\* { ...this.config, [field]: value }
With(config, field, value) ==
  [f \in ConfigFields |-> IF f = field THEN value ELSE config[f]]

\* Math.max(0, Math.min(1, value)), in hundredths
Clamp(value) == IF value < 0 THEN 0 ELSE IF value > 100 THEN 100 ELSE value

\* no call is running: JavaScript runs parse to completion before anything else
Idle == pc = "idle"

\* a builder method returns a new VardBuilder and leaves its receiver as it is
Created(i, config) ==
  /\ Idle
  /\ i \in DOMAIN builders
  /\ Len(builders) < MaxBuilders
  /\ builders' = Append(builders, VardBuilder(config))
  /\ UNCHANGED callVars

\* delimiters() appending to the customDelimiters of its receiver
delimitersAppending(i, delims) ==
  Created(i, With(builders[i], "customDelimiters",
                  builders[i].customDelimiters \o delims))

delimiters(i, delims) ==
  Created(i, With(builders[i], "customDelimiters", delims))

pattern(i, regex, severity, type) ==
  Created(i, With(builders[i], "customPatterns",
                  Append(builders[i].customPatterns,
                         [regex |-> regex, severity |-> severity, type |-> type])))

patterns(i, pats) ==
  Created(i, With(builders[i], "customPatterns", builders[i].customPatterns \o pats))

maxLength(i, length) ==
  Created(i, With(builders[i], "maxLength", length))

\* threshold() writing the clamped value into this.config before returning the copy
thresholdInPlace(i, value) ==
  /\ Idle
  /\ i \in DOMAIN builders
  /\ Len(builders) < MaxBuilders
  /\ builders' = Append([builders EXCEPT ![i] = With(@, "threshold", Clamp(value))],
                        With(builders[i], "threshold", Clamp(value)))
  /\ UNCHANGED callVars

\* threshold() storing the value as it was given
thresholdUnclamped(i, value) ==
  Created(i, With(builders[i], "threshold", value))

threshold(i, value) ==
  Created(i, With(builders[i], "threshold", Clamp(value)))

\* setThreatAction writing the action for every threat type
setThreatActionAll(i, threat, action) ==
  Created(i, With(builders[i], "threatActions", [t \in ThreatType |-> action]))

setThreatAction(i, threat, action) ==
  Created(i, With(builders[i], "threatActions",
                  [t \in ThreatType |->
                     IF t = threat THEN action ELSE builders[i].threatActions[t]]))

block(i, threat) == setThreatAction(i, threat, "block")

sanitize(i, threat) == setThreatAction(i, threat, "sanitize")

warn(i, threat) == setThreatAction(i, threat, "warn")

allow(i, threat) == setThreatAction(i, threat, "allow")

\* ---- parse and safeParse ----
\* safeParse(input) is called on builder i; it calls parse(input)
Call(i, in) ==
  /\ Idle
  /\ i \in DOMAIN builders
  /\ self' = i
  /\ input' = in
  /\ pc' = "start"
  /\ threats' = <<>>
  /\ buckets' = NoBuckets
  /\ sanitized' = <<>>
  /\ iterations' = 0
  /\ passes' = 0
  /\ recheck' = NoBuckets
  /\ outcome' = Pending
  /\ spResult' = safeParse(Pending)
  /\ phases' = <<>>
  /\ warned' = <<>>
  /\ UNCHANGED << observer, catalog, builders >>

\* parse handing the length threat to categorizeThreats like a detected threat
ParseStartRouted ==
  /\ pc = "start"
  /\ LET config == builders[self]
         lengthThreat == checkLength(input.text, config.maxLength)
         cat == categorizeThreats(lengthThreat, config)
     IN IF ~input.isString
        THEN Finish(ThrownTypeError) /\ UNCHANGED phases
        ELSE IF IsBlank(input.text)
        THEN Finish(Returned(<<>>)) /\ UNCHANGED phases
        ELSE IF lengthThreat # NoThreat
        THEN /\ phases' = phases \o << "checkLength", "categorizeThreats" >>
             /\ IF Len(cat.toBlock) > 0
                THEN Finish(ThrownInjection(cat.toBlock))
                ELSE Finish(Returned(input.text))
        ELSE /\ phases' = Append(phases, "checkLength")
             /\ pc' = "detect"
             /\ UNCHANGED << outcome, spResult, warned >>
  /\ UNCHANGED << observer, catalog, builders, self, input, threats, buckets, sanitized, iterations,
                  passes, recheck >>

\* parse running the length check before the empty check
ParseStartLengthFirst ==
  /\ pc = "start"
  /\ LET config == builders[self]
         lengthThreat == checkLength(input.text, config.maxLength)
     IN IF ~input.isString
        THEN Finish(ThrownTypeError) /\ UNCHANGED phases
        ELSE IF lengthThreat # NoThreat
        THEN phases' = Append(phases, "checkLength") /\ Finish(ThrownInjection(lengthThreat))
        ELSE IF IsBlank(input.text)
        THEN Finish(Returned(<<>>)) /\ phases' = Append(phases, "checkLength")
        ELSE /\ phases' = Append(phases, "checkLength")
             /\ pc' = "detect"
             /\ UNCHANGED << outcome, spResult, warned >>
  /\ UNCHANGED << observer, catalog, builders, self, input, threats, buckets, sanitized, iterations,
                  passes, recheck >>

\* parse running the empty check before the type check
ParseStartBlankFirst ==
  /\ pc = "start"
  /\ LET config == builders[self]
         lengthThreat == checkLength(input.text, config.maxLength)
     IN IF IsBlank(input.text)
        THEN Finish(Returned(<<>>)) /\ UNCHANGED phases
        ELSE IF ~input.isString
        THEN Finish(ThrownTypeError) /\ UNCHANGED phases
        ELSE /\ phases' = Append(phases, "checkLength")
             /\ IF lengthThreat # NoThreat
                THEN Finish(ThrownInjection(lengthThreat))
                ELSE pc' = "detect" /\ UNCHANGED << outcome, spResult, warned >>
  /\ UNCHANGED << observer, catalog, builders, self, input, threats, buckets, sanitized, iterations,
                  passes, recheck >>

\* parse: the type check, the empty check and the length check
ParseStart ==
  /\ pc = "start"
  /\ LET config == builders[self]
         lengthThreat == checkLength(input.text, config.maxLength)
     IN IF ~input.isString
        THEN Finish(ThrownTypeError) /\ UNCHANGED phases
        ELSE IF IsBlank(input.text)
        THEN Finish(Returned(<<>>)) /\ UNCHANGED phases
        ELSE /\ phases' = Append(phases, "checkLength")
             /\ IF lengthThreat # NoThreat
                THEN Finish(ThrownInjection(lengthThreat))
                ELSE pc' = "detect" /\ UNCHANGED << outcome, spResult, warned >>
  /\ UNCHANGED << observer, catalog, builders, self, input, threats, buckets, sanitized, iterations,
                  passes, recheck >>

\* parse looking at toSanitize before toBlock
ParseDetectSanitizeFirst ==
  /\ pc = "detect"
  /\ LET config == builders[self]
         found == DetectAll(input.text, config)
         cat == categorizeThreats(found, config)
     IN /\ threats' = found
        /\ buckets' = cat
        /\ phases' = phases \o << "detect", "categorizeThreats" >>
        /\ sanitized' = input.text
        /\ IF Len(cat.toSanitize) > 0
           THEN pc' = "sanitize" /\ UNCHANGED << outcome, spResult, warned >>
           ELSE IF Len(cat.toBlock) > 0
           THEN Finish(ThrownInjection(cat.toBlock))
           ELSE Deliver(input.text, cat.toWarn)
  /\ UNCHANGED << observer, catalog, builders, self, input, iterations, passes, recheck >>

\* parse throwing the first blocked threat only
ParseDetectFirstThreat ==
  /\ pc = "detect"
  /\ LET config == builders[self]
         found == DetectAll(input.text, config)
         cat == categorizeThreats(found, config)
     IN /\ threats' = found
        /\ buckets' = cat
        /\ phases' = phases \o << "detect", "categorizeThreats" >>
        /\ sanitized' = input.text
        /\ IF Len(cat.toBlock) > 0
           THEN Finish(ThrownInjection(<< cat.toBlock[1] >>))
           ELSE IF Len(cat.toSanitize) > 0
           THEN pc' = "sanitize" /\ UNCHANGED << outcome, spResult, warned >>
           ELSE Deliver(input.text, cat.toWarn)
  /\ UNCHANGED << observer, catalog, builders, self, input, iterations, passes, recheck >>

\* parse sanitizing whenever a threat was detected
ParseDetectAlwaysSanitize ==
  /\ pc = "detect"
  /\ LET config == builders[self]
         found == DetectAll(input.text, config)
         cat == categorizeThreats(found, config)
     IN /\ threats' = found
        /\ buckets' = cat
        /\ phases' = phases \o << "detect", "categorizeThreats" >>
        /\ sanitized' = input.text
        /\ IF Len(cat.toBlock) > 0
           THEN Finish(ThrownInjection(cat.toBlock))
           ELSE IF Len(found) > 0
           THEN pc' = "sanitize" /\ UNCHANGED << outcome, spResult, warned >>
           ELSE Deliver(input.text, cat.toWarn)
  /\ UNCHANGED << observer, catalog, builders, self, input, iterations, passes, recheck >>

\* parse pushing the custom patterns onto the module-level allPatterns array
ParseDetectWritingCatalog ==
  /\ pc = "detect"
  /\ LET config == builders[self]
         pushed == catalog.patterns \o config.customPatterns
         found == detect(input.text, pushed)
                    \o (IF Len(config.customDelimiters) > 0
                        THEN detectCustomDelimiters(input.text, config.customDelimiters)
                        ELSE <<>>)
         cat == categorizeThreats(found, config)
     IN /\ catalog' = [patterns |-> pushed, lastIndex |-> [k \in DOMAIN pushed |-> 0]]
        /\ threats' = found
        /\ buckets' = cat
        /\ phases' = phases \o << "detect", "categorizeThreats" >>
        /\ sanitized' = input.text
        /\ IF Len(cat.toBlock) > 0
           THEN Finish(ThrownInjection(cat.toBlock))
           ELSE IF Len(cat.toSanitize) > 0
           THEN pc' = "sanitize" /\ UNCHANGED << outcome, spResult, warned >>
           ELSE Deliver(input.text, cat.toWarn)
  /\ UNCHANGED << observer, builders, self, input, iterations, passes, recheck >>

\* parse: detection, categorization, and the decision on the first buckets
ParseDetect ==
  /\ pc = "detect"
  /\ LET config == builders[self]
         found == DetectAll(input.text, config)
         cat == categorizeThreats(found, config)
     IN /\ threats' = found
        /\ buckets' = cat
        /\ phases' = phases \o << "detect", "categorizeThreats" >>
        /\ sanitized' = input.text
        /\ IF Len(cat.toBlock) > 0
           THEN Finish(ThrownInjection(cat.toBlock))
           ELSE IF Len(cat.toSanitize) > 0
           THEN pc' = "sanitize" /\ UNCHANGED << outcome, spResult, warned >>
           ELSE Deliver(input.text, cat.toWarn)
  /\ UNCHANGED << observer, catalog, builders, self, input, iterations, passes, recheck >>

\* sanitize with while (true): only a pass that changes nothing ends the loop
SanitizePassUncapped ==
  /\ pc = "sanitize"
  /\ LET after == applySanitizationPass(sanitized, buckets.toSanitize)
     IN /\ sanitized' = after
        /\ passes' = passes + 1
        /\ phases' = Append(phases, "applySanitizationPass")
        /\ IF after = sanitized
           THEN pc' = "recheck" /\ UNCHANGED iterations
           ELSE pc' = "sanitize" /\ iterations' = iterations + 1
  /\ UNCHANGED << observer, catalog, builders, self, input, threats, buckets, recheck, outcome, spResult, warned >>

\* parse returning the text as soon as the sanitize loop ends, without re-detection
SanitizePassThenReturn ==
  /\ pc = "sanitize"
  /\ iterations < maxIterations
  /\ LET after == applySanitizationPass(sanitized, buckets.toSanitize)
     IN /\ sanitized' = after
        /\ passes' = passes + 1
        /\ phases' = Append(phases, "applySanitizationPass")
        /\ IF after = sanitized
           THEN Finish(Returned(after)) /\ UNCHANGED iterations
           ELSE /\ iterations' = iterations + 1
                /\ IF iterations + 1 < maxIterations
                   THEN pc' = "sanitize" /\ UNCHANGED << outcome, spResult, warned >>
                   ELSE Finish(Returned(after))
  /\ UNCHANGED << observer, catalog, builders, self, input, threats, buckets, recheck >>

\* sanitize: one turn of the while loop
SanitizePass ==
  /\ pc = "sanitize"
  /\ iterations < maxIterations
  /\ LET after == applySanitizationPass(sanitized, buckets.toSanitize)
     IN /\ sanitized' = after
        /\ passes' = passes + 1
        /\ phases' = Append(phases, "applySanitizationPass")
        /\ IF after = sanitized
           THEN pc' = "recheck" /\ UNCHANGED iterations
           ELSE /\ iterations' = iterations + 1
                /\ pc' = IF iterations + 1 < maxIterations THEN "sanitize" ELSE "recheck"
  /\ UNCHANGED << observer, catalog, builders, self, input, threats, buckets, recheck, outcome, spResult, warned >>

\* parse returning the sanitized text without looking at the second categorization
ParseRecheckIgnored ==
  /\ pc = "recheck"
  /\ LET config == builders[self]
         cat == categorizeThreats(DetectAll(sanitized, config), config)
     IN /\ recheck' = cat
        /\ phases' = phases \o << "detect", "categorizeThreats" >>
        /\ Deliver(sanitized, buckets.toWarn)
  /\ UNCHANGED << observer, catalog, builders, self, input, threats, buckets, sanitized, iterations, passes >>

\* parse: re-validation of the sanitized text
ParseRecheck ==
  /\ pc = "recheck"
  /\ LET config == builders[self]
         cat == categorizeThreats(DetectAll(sanitized, config), config)
     IN /\ recheck' = cat
        /\ phases' = phases \o << "detect", "categorizeThreats" >>
        /\ IF Len(cat.toBlock) > 0
           THEN Finish(ThrownInjection(cat.toBlock))
           ELSE Deliver(sanitized, buckets.toWarn)
  /\ UNCHANGED << observer, catalog, builders, self, input, threats, buckets, sanitized, iterations, passes >>

\* the caller has the result of safeParse; the locals of the call are gone
Return ==
  /\ pc = "done"
  /\ pc' = "idle"
  /\ self' = 0
  /\ input' = NotAString
  /\ threats' = <<>>
  /\ buckets' = NoBuckets
  /\ sanitized' = <<>>
  /\ iterations' = 0
  /\ passes' = 0
  /\ recheck' = NoBuckets
  /\ outcome' = Pending
  /\ spResult' = safeParse(Pending)
  /\ phases' = <<>>
  /\ warned' = <<>>
  /\ UNCHANGED << observer, catalog, builders >>

Step == ParseStart \/ ParseDetect \/ SanitizePass \/ ParseRecheck

\* ---- the arguments the builder methods are called with ----
hiPattern == [regex |-> "hi", severity |-> 80, type |-> "roleManipulation"]

DelimiterArgs == { << << "@@" >> >>, << << "hi" >> >> }

ThresholdArgs == {50, 95, 150}

BuilderTypes == {"instructionOverride", "delimiterInjection"}

Derive ==
  \E i \in DOMAIN builders :
    \/ \E d \in DelimiterArgs : delimiters(i, d)
    \/ pattern(i, hiPattern.regex, hiPattern.severity, hiPattern.type)
    \/ patterns(i, << hiPattern >>)
    \/ maxLength(i, SmallLength)
    \/ \E v \in ThresholdArgs : threshold(i, v)
    \/ \E t \in BuilderTypes : block(i, t)
    \/ \E t \in BuilderTypes : sanitize(i, t)
    \/ \E t \in BuilderTypes : warn(i, t)
    \/ \E t \in BuilderTypes : allow(i, t)

\* ---- the program: builders derived from a preset, calls made on any of them ----
Init ==
  /\ \E name \in {"strict", "moderate", "lenient"} :
       builders = << VardBuilder(getPreset(name)) >>
  /\ self = 0
  /\ input = NotAString
  /\ pc = "idle"
  /\ threats = <<>>
  /\ buckets = NoBuckets
  /\ sanitized = <<>>
  /\ iterations = 0
  /\ passes = 0
  /\ recheck = NoBuckets
  /\ outcome = Pending
  /\ spResult = safeParse(Pending)
  /\ phases = <<>>
  /\ observer = "none"
  /\ catalog = CatalogAsLoaded
  /\ warned = <<>>

Next ==
  \/ Derive
  \/ \E i \in DOMAIN builders, in \in Corpus : Call(i, in)
  \/ Step
  \/ Return

Spec == Init /\ [][Next]_vars

\* ---- calls under every configuration of a bounded space ----
\* new VardBuilder(config) accepts any configuration
ActionMaps ==
  { [t \in ThreatType |->
       CASE t = "instructionOverride" -> a
         [] t = "delimiterInjection" -> b
         [] t = "roleManipulation" -> c
         [] t = "encoding" -> "sanitize"
         [] OTHER -> "block"] :
    a \in ThreatAction, b \in ThreatAction, c \in {"sanitize", "warn"} }

Customs ==
  { [delims |-> <<>>, pats |-> <<>>],
    [delims |-> << << "@@" >> >>, pats |-> << hiPattern >>],
    [delims |-> << << "hi" >>, << "@@" >> >>, pats |-> <<>>] }

ConfigSpace ==
  { [threshold |-> th, maxLength |-> ml,
     customDelimiters |-> cu.delims, customPatterns |-> cu.pats,
     threatActions |-> am] :
    th \in {70, 95}, ml \in {SmallLength, MODERATE_PRESET.maxLength},
    cu \in Customs, am \in ActionMaps }

InitCalls ==
  /\ \E config \in ConfigSpace : builders = << VardBuilder(config) >>
  /\ self = 0
  /\ input = NotAString
  /\ pc = "idle"
  /\ threats = <<>>
  /\ buckets = NoBuckets
  /\ sanitized = <<>>
  /\ iterations = 0
  /\ passes = 0
  /\ recheck = NoBuckets
  /\ outcome = Pending
  /\ spResult = safeParse(Pending)
  /\ phases = <<>>
  /\ observer = "none"
  /\ catalog = CatalogAsLoaded
  /\ warned = <<>>

\* one call per behaviour: a call leaves no state behind for the next one
NextCalls ==
  \/ \E in \in Inputs : Call(1, in)
  \/ Step

SpecCalls == InitCalls /\ [][NextCalls]_vars

\* ---- calls under configurations that have a warn observer ----
Observers == {"records", "throws"}

InitWarn ==
  /\ \E config \in ConfigSpace :
       /\ config.maxLength = MODERATE_PRESET.maxLength
       /\ builders = << VardBuilder(config) >>
  /\ self = 0
  /\ input = NotAString
  /\ pc = "idle"
  /\ threats = <<>>
  /\ buckets = NoBuckets
  /\ sanitized = <<>>
  /\ iterations = 0
  /\ passes = 0
  /\ recheck = NoBuckets
  /\ outcome = Pending
  /\ spResult = safeParse(Pending)
  /\ phases = <<>>
  /\ observer \in Observers
  /\ catalog = CatalogAsLoaded
  /\ warned = <<>>

SpecWarn == InitWarn /\ [][NextCalls]_vars

\* ---- the action methods of the builder, on every threat type ----
NextActions ==
  \E i \in DOMAIN builders, t \in ThreatType :
    \/ block(i, t)
    \/ sanitize(i, t)
    \/ warn(i, t)
    \/ allow(i, t)

SpecActions == Init /\ [][NextActions]_vars

\* ---- threshold() and pattern()/patterns() called with values inside and outside [0,1] ----
RangeArgs == {-20, 50, 150}

NextRanges ==
  \E i \in DOMAIN builders, v \in RangeArgs :
    \/ threshold(i, v)
    \/ pattern(i, hiPattern.regex, v, hiPattern.type)
    \/ patterns(i, << hiPattern, [hiPattern EXCEPT !.severity = v] >>)

SpecRanges == Init /\ [][NextRanges]_vars

\* ---- one sanitization pass over threats of the three targeted types ----
TargetedAlphabet == {"hi", "HI", "@@"}

\* threats as custom patterns of several types report them on such a text,
\* one of them with an empty match
TargetedPool ==
  { [type |-> "instructionOverride", severity |-> 80, match |-> << "hi" >>, position |-> 0],
    [type |-> "roleManipulation", severity |-> 80, match |-> << "@@", "hi" >>, position |-> 2],
    [type |-> "instructionOverride", severity |-> 80, match |-> << "@@" >>, position |-> 2],
    [type |-> "systemPromptLeak", severity |-> 80, match |-> << "HI" >>, position |-> 0],
    [type |-> "roleManipulation", severity |-> 80, match |-> <<>>, position |-> 0] }

TargetedLists == UNION {[1..k -> TargetedPool] : k \in 0..MaxTargeted}

CallPass ==
  /\ pc = "given"
  /\ sanitized' = applySanitizationPass(input.text, buckets.toSanitize)
  /\ pc' = "pass"
  /\ UNCHANGED << observer, catalog, builders, self, input, threats, buckets, iterations, passes,
                  recheck, outcome, spResult, phases, warned >>

InitTargeted ==
  /\ builders = << VardBuilder(LENIENT_PRESET) >>
  /\ self = 0
  /\ \E text \in Texts(TargetedAlphabet, MaxTargeted), ths \in TargetedLists :
       /\ input = String(text)
       /\ buckets = [toBlock |-> <<>>, toSanitize |-> ths, toWarn |-> <<>>]
       /\ sanitized = text
  /\ pc = "given"
  /\ threats = <<>>
  /\ iterations = 0
  /\ passes = 0
  /\ recheck = NoBuckets
  /\ outcome = Pending
  /\ spResult = safeParse(Pending)
  /\ phases = <<>>
  /\ observer = "none"
  /\ catalog = CatalogAsLoaded
  /\ warned = <<>>

SpecTargeted == InitTargeted /\ [][CallPass]_vars

\* ---- the sanitizers called on their own ----
SanitizerAlphabet == {"<sy", "stem>", "RLO", "SYSTEM", ":", " ", "\\x41", "&#1;"}

\* short texts, and runs of escape sequences around the length 5 of the sweeps
SanitizerTexts ==
  Texts(SanitizerAlphabet, MaxShort)
    \cup { before \o Repeat(tok, n) \o after :
             before \in Texts(SanitizerAlphabet, 1), after \in Texts(SanitizerAlphabet, 1),
             tok \in {"\\x41", "&#1;"}, n \in 3..MaxRun }

\* threats as detect reports them (sanitize reads their type and their match)
ThreatPool ==
  { [type |-> "delimiterInjection", severity |-> 95,
     match |-> << "<sy", "stem>" >>, position |-> 0],
    [type |-> "encoding", severity |-> 90, match |-> << "RLO" >>, position |-> 0],
    [type |-> "instructionOverride", severity |-> 90,
     match |-> << "ig", "nore all rules" >>, position |-> 0],
    [type |-> "roleManipulation", severity |-> 80, match |-> << "hi" >>, position |-> 0] }

ThreatLists == UNION {[1..k -> ThreatPool] : k \in 0..MaxThreats}

CallSanitize ==
  /\ pc = "given"
  /\ sanitized' = Sanitize(input.text, buckets.toSanitize)
  /\ pc' = "sanitized"
  /\ UNCHANGED << observer, catalog, builders, self, input, threats, buckets, iterations, passes,
                  recheck, outcome, spResult, phases, warned >>

\* sanitize called on the text it returned, with the same threats
CallSanitizeAgain ==
  /\ pc = "sanitized"
  /\ sanitized' = Sanitize(sanitized, buckets.toSanitize)
  /\ pc' = "sanitized again"
  /\ UNCHANGED << observer, catalog, builders, self, input, threats, buckets, iterations, passes,
                  recheck, outcome, spResult, phases, warned >>

CallSanitizeDelimiters ==
  /\ pc = "given"
  /\ sanitized' = sanitizeDelimiters(input.text)
  /\ pc' = "delimiters"
  /\ UNCHANGED << observer, catalog, builders, self, input, threats, buckets, iterations, passes,
                  recheck, outcome, spResult, phases, warned >>

CallSanitizeEncoding ==
  /\ pc = "given"
  /\ sanitized' = sanitizeEncoding(input.text)
  /\ pc' = "encoding"
  /\ UNCHANGED << observer, catalog, builders, self, input, threats, buckets, iterations, passes,
                  recheck, outcome, spResult, phases, warned >>

InitSanitize ==
  /\ builders = << VardBuilder(MODERATE_PRESET) >>
  /\ self = 0
  /\ \E text \in AllTexts \cup SanitizerTexts, ths \in ThreatLists :
       /\ input = String(text)
       /\ buckets = [toBlock |-> <<>>, toSanitize |-> ths, toWarn |-> <<>>]
       /\ sanitized = text
  /\ pc = "given"
  /\ threats = <<>>
  /\ iterations = 0
  /\ passes = 0
  /\ recheck = NoBuckets
  /\ outcome = Pending
  /\ spResult = safeParse(Pending)
  /\ phases = <<>>
  /\ observer = "none"
  /\ catalog = CatalogAsLoaded
  /\ warned = <<>>

NextSanitize ==
  \/ CallSanitize
  \/ CallSanitizeAgain
  \/ CallSanitizeDelimiters
  \/ CallSanitizeEncoding

SpecSanitize == InitSanitize /\ [][NextSanitize]_vars

\* ======================= properties =======================
Range(seq) == {seq[k] : k \in DOMAIN seq}

\* the configuration of the builder the current call runs on
Config == builders[self]

\* the first categorization has been made
Categorized == "categorizeThreats" \in Range(phases)

\* the call was made on a non-blank string longer than maxLength
OverLength ==
  /\ self # 0 /\ input.isString /\ ~IsBlank(input.text)
  /\ StrLen(input.text) > Config.maxLength

\* what detection and categorization give for a text under the call's configuration
Recategorized(text) == categorizeThreats(DetectAll(text, Config), Config)

\* C1 Block dominance: once the first categorization has a threat in toBlock,
\* the call is over, it failed with PromptInjectionError carrying toBlock, no
\* sanitization pass was run and no text is returned, whatever toSanitize and
\* toWarn hold.
C1_BlockDominance ==
  Len(buckets.toBlock) > 0 =>
    /\ pc = "done"
    /\ outcome.kind = "PromptInjectionError"
    /\ outcome.text = <<>>
    /\ passes = 0
    /\ "applySanitizationPass" \notin Range(phases)
    /\ spResult.safe = FALSE

C1_Witness ==
  /\ pc = "done"
  /\ Len(buckets.toBlock) > 0
  /\ Len(buckets.toSanitize) > 0
  /\ Len(buckets.toWarn) > 0
  /\ outcome.kind = "PromptInjectionError"

\* C2 Re-validation: when nothing is blocked and toSanitize is not empty, the
\* sanitized text is detected and categorized again under the same
\* configuration and a block threat of this second pass fails the call with
\* the second-pass toBlock; so a returned text never has a block threat of
\* its own.
C2_Revalidation ==
  pc = "done" =>
    /\ (Len(buckets.toBlock) = 0 /\ Len(buckets.toSanitize) > 0) =>
         /\ recheck = Recategorized(sanitized)
         /\ Len(recheck.toBlock) > 0 => outcome = ThrownInjection(recheck.toBlock)
         /\ Len(recheck.toBlock) = 0 => outcome = Returned(sanitized)
    /\ outcome.kind = "return" => Len(Recategorized(outcome.text).toBlock) = 0

C2_Witness ==
  /\ pc = "done"
  /\ Len(buckets.toBlock) = 0
  /\ Len(buckets.toSanitize) > 0
  /\ Len(recheck.toBlock) > 0
  /\ outcome = ThrownInjection(recheck.toBlock)
  /\ input.text = << "ig", "<sy", "stem>", "nore all rules" >>

\* C3 (as claimed): a text returned after sanitization holds no threat at or
\* above the threshold of a type configured to sanitize.
C3_SanitizedTextIsClean ==
  (pc = "done" /\ outcome.kind = "return" /\ passes > 0) =>
    Len(Recategorized(outcome.text).toSanitize) = 0

\* C4 Threshold exclusion: a detected threat whose severity is below the
\* threshold is in no bucket, and when every detected threat is below it the
\* input is returned as it is; a threat whose severity equals the threshold
\* is in the bucket of its action.
C4_ThresholdExclusion ==
  Categorized =>
    /\ \A k \in DOMAIN threats :
         /\ threats[k].severity < Config.threshold =>
              threats[k] \notin
                Range(buckets.toBlock) \cup Range(buckets.toSanitize)
                  \cup Range(buckets.toWarn)
         /\ (/\ threats[k].severity = Config.threshold
             /\ Config.threatActions[threats[k].type] # "allow") =>
              threats[k] \in
                Range(buckets.toBlock) \cup Range(buckets.toSanitize)
                  \cup Range(buckets.toWarn)
    /\ (\A k \in DOMAIN threats : threats[k].severity < Config.threshold) =>
         /\ pc = "done"
         /\ outcome = Returned(input.text)
         /\ passes = 0

C4_Witness ==
  /\ pc = "done"
  /\ \E k \in DOMAIN threats : threats[k].severity < Config.threshold
  /\ \E k \in DOMAIN threats :
       /\ threats[k].severity = Config.threshold
       /\ threats[k] \in Range(buckets.toSanitize)
  /\ \A k \in DOMAIN buckets.toSanitize :
       buckets.toSanitize[k].severity >= Config.threshold

\* the threats at or above the threshold whose type has the given action, in list order
Routed(action) ==
  SelectSeq(threats,
            LAMBDA t : /\ t.severity >= Config.threshold
                       /\ Config.threatActions[t.type] = action)

\* C5 Routing: each bucket holds exactly the threats at or above the threshold
\* whose type is configured with the bucket's action, in the order of the
\* threat list; a threat whose type is allowed is in no bucket and the buckets
\* are pairwise disjoint.
C5_Routing ==
  Categorized =>
    /\ buckets.toBlock = Routed("block")
    /\ buckets.toSanitize = Routed("sanitize")
    /\ buckets.toWarn = Routed("warn")
    /\ Range(buckets.toBlock) \cap Range(buckets.toSanitize) = {}
    /\ Range(buckets.toBlock) \cap Range(buckets.toWarn) = {}
    /\ Range(buckets.toSanitize) \cap Range(buckets.toWarn) = {}
    /\ \A k \in DOMAIN threats :
         Config.threatActions[threats[k].type] = "allow" =>
           threats[k] \notin
             Range(buckets.toBlock) \cup Range(buckets.toSanitize)
               \cup Range(buckets.toWarn)

C5_Witness ==
  /\ Categorized
  /\ Len(buckets.toBlock) > 0
  /\ Len(buckets.toSanitize) > 1
  /\ Len(buckets.toWarn) > 0

\* C6 Iteration policy: sanitize never applies more than 5 passes; while the
\* loop runs every pass so far changed the text; it leaves the loop either
\* after the first pass that changes nothing or after 5 passes that all did.
C6_IterationPolicy ==
  /\ passes <= 5
  /\ pc = "sanitize" => (passes = iterations /\ iterations < 5)
  /\ (pc \in {"recheck", "done"} /\ passes > 0) =>
       \/ /\ passes = iterations + 1
          /\ applySanitizationPass(sanitized, buckets.toSanitize) = sanitized
       \/ /\ passes = iterations
          /\ iterations = 5

C6_Witness ==
  /\ pc = "done"
  /\ passes = 5
  /\ iterations = 5
  /\ applySanitizationPass(sanitized, buckets.toSanitize) # sanitized

\* the call on "start over" is decided by the settings of its own builder:
\* it fails exactly when that builder's threshold is at most 0.75 and that
\* builder blocks instructionOverride (or its maxLength is below 10)
OwnSettingsDecide ==
  (pc = "done" /\ input = String(<< "start over" >>)) =>
    (outcome.kind = "PromptInjectionError" <=>
       \/ builders[self].maxLength < 10
       \/ /\ builders[self].threshold <= 75
          /\ builders[self].threatActions["instructionOverride"] = "block")

\* C7 Builder immutability: no step changes a builder that exists; a
\* configuration method adds one new builder and touches nothing else, a call
\* changes no builder at all, and a call is decided by the settings of the
\* builder it is made on, whatever was derived from it or beside it.
C7_BuilderImmutability ==
  [][ /\ \A i \in DOMAIN builders :
           i \in DOMAIN builders' /\ builders'[i] = builders[i]
      /\ builders' # builders =>
           (Len(builders') = Len(builders) + 1 /\ UNCHANGED callVars)
      /\ OwnSettingsDecide'
    ]_vars

\* two siblings derived from the base with their own thresholds, the base as
\* it was, and a call on one sibling decided by that sibling's threshold
C7_Witness ==
  /\ Len(builders) = 3
  /\ builders[1] = MODERATE_PRESET
  /\ builders[2] = With(MODERATE_PRESET, "threshold", 50)
  /\ builders[3] = With(MODERATE_PRESET, "threshold", 95)
  /\ pc = "done"
  /\ self = 3
  /\ input.text = << "start over" >>
  /\ outcome = Returned(input.text)

\* C8 (as claimed): the length threat goes through the threshold and the
\* action of instructionOverride: over-length input fails only when the
\* threshold is at most 0.8 and instructionOverride is blocked, and otherwise
\* comes back unmodified.
C8_LengthThreatIsRouted ==
  (pc = "done" /\ OverLength) =>
    IF 80 >= Config.threshold /\ Config.threatActions["instructionOverride"] = "block"
    THEN outcome.kind = "PromptInjectionError"
    ELSE outcome = Returned(input.text)

\* C8 (amended): the length threat bypasses the threshold and the action
\* routing: over-length input fails the call under every threshold and every
\* action of instructionOverride, categorizeThreats is not called and nothing
\* is sanitized.
C8_LengthThreatBypassesRouting ==
  OverLength =>
    /\ ~Categorized
    /\ buckets = NoBuckets
    /\ passes = 0
    /\ pc = "done" => (outcome.kind = "PromptInjectionError" /\ ~spResult.safe)

C8_Witness ==
  /\ pc = "done"
  /\ OverLength
  /\ Config.threshold > 80
  /\ Config.threatActions["instructionOverride"] \in {"sanitize", "warn", "allow"}
  /\ outcome.kind = "PromptInjectionError"

\* C9 Length check: a non-blank string longer than maxLength fails with
\* exactly one threat, of type instructionOverride and severity 0.8, and no
\* pattern or custom-delimiter detection runs on it; at length maxLength the
\* call goes on to detection and its failure, if any, is not the length threat.
C9_LengthViolation ==
  (pc = "done" /\ self # 0 /\ input.isString /\ ~IsBlank(input.text)) =>
    /\ StrLen(input.text) > Config.maxLength =>
         /\ outcome.kind = "PromptInjectionError"
         /\ Len(outcome.threats) = 1
         /\ outcome.threats[1].type = "instructionOverride"
         /\ outcome.threats[1].severity = 80
         /\ phases = << "checkLength" >>
         /\ threats = <<>>
    /\ StrLen(input.text) <= Config.maxLength =>
         /\ "detect" \in Range(phases)
         /\ \A k \in DOMAIN outcome.threats :
              outcome.threats[k].match # << LengthMessage(Config.maxLength) >>

C9_Witness ==
  /\ pc = "done"
  /\ OverLength
  /\ Len(outcome.threats) = 1
  /\ Len(DetectAll(input.text, Config)) > 0
  /\ phases = << "checkLength" >>

\* C10 (as claimed): safeParse never fails, for every input: it always
\* returns a result, safe with the text parse returned or unsafe with the
\* threats parse failed with.
C10_SafeParseNeverFails ==
  pc = "done" =>
    /\ spResult.kind = "result"
    /\ spResult.safe <=> outcome.kind = "return"

\* C10 (amended): for every string input safeParse returns a result, safe
\* with exactly the text parse returned or unsafe with exactly the threats
\* parse failed with; the TypeError of a non-string input is thrown again.
C10_SafeParse ==
  pc = "done" =>
    /\ input.isString => spResult.kind = "result"
    /\ outcome.kind = "return" =>
         /\ spResult.kind = "result" /\ spResult.safe
         /\ spResult.data = outcome.text
    /\ outcome.kind = "PromptInjectionError" =>
         /\ spResult.kind = "result" /\ ~spResult.safe
         /\ spResult.threats = outcome.threats
    /\ outcome.kind = "TypeError" => (spResult.kind = "TypeError" /\ ~input.isString)
    /\ (spResult.kind = "result" /\ spResult.safe) => outcome = Returned(spResult.data)
    /\ (spResult.kind = "result" /\ ~spResult.safe) =>
         outcome = ThrownInjection(spResult.threats)

C10_Witness ==
  /\ pc = "done"
  /\ spResult.kind = "result"
  /\ ~spResult.safe
  /\ Len(spResult.threats) > 0
  /\ spResult.threats = recheck.toBlock
  /\ passes > 0

\* C11 Warn dispatch: when parse returns a text, the observer has been called
\* exactly once for each threat of the first categorization's toWarn bucket,
\* in bucket order, and with no other threat: none that is blocked,
\* sanitized, allowed or below the threshold, and none derived from the
\* sanitized text.
C11_WarnDispatch ==
  /\ \A k \in DOMAIN warned : warned[k] \in Range(buckets.toWarn)
  /\ (pc = "done" /\ outcome.kind = "return") =>
       /\ warned = buckets.toWarn
       /\ Categorized => warned = Routed("warn")

\* two warnings dispatched in bucket order after a sanitization that moved
\* the text under them
C11_Witness ==
  /\ pc = "done"
  /\ observer = "records"
  /\ outcome.kind = "return"
  /\ passes > 0
  /\ Len(warned) = 2
  /\ warned = buckets.toWarn
  /\ Recategorized(outcome.text).toWarn # warned
  /\ Len(buckets.toSanitize) > 0

\* C12 Observer failure: when the observer raises on a warning of a call that
\* is not blocked, parse ends with the observer's error and returns no text,
\* and safeParse lets the error through as it is.
C12_ObserverFailure ==
  pc = "done" =>
    /\ (/\ observer = "throws"
        /\ Len(buckets.toBlock) = 0
        /\ Len(recheck.toBlock) = 0
        /\ Len(buckets.toWarn) > 0) =>
         /\ outcome = ThrownObserverError
         /\ outcome.text = <<>>
         /\ spResult.kind = "ObserverError"
    /\ outcome.kind = "ObserverError" =>
         (observer = "throws" /\ warned = << buckets.toWarn[1] >>)

C12_Witness ==
  /\ pc = "done"
  /\ outcome = ThrownObserverError
  /\ passes > 0
  /\ Len(buckets.toWarn) = 2
  /\ Len(warned) = 1

\* C13 Blank input: parse of the empty string or of a whitespace-only string
\* returns the empty string under every configuration, and neither the length
\* check nor detection, categorization or sanitization is run, also when the
\* whitespace is longer than maxLength.
C13_BlankShortCircuit ==
  (self # 0 /\ input.isString /\ IsBlank(input.text)) =>
    /\ pc \in {"start", "done"}
    /\ phases = <<>>
    /\ threats = <<>>
    /\ buckets = NoBuckets
    /\ passes = 0
    /\ pc = "done" =>
         /\ outcome = Returned(<<>>)
         /\ spResult.safe /\ spResult.data = <<>>

C13_Witness ==
  /\ pc = "done"
  /\ IsBlank(input.text)
  /\ StrLen(input.text) > Config.maxLength
  /\ outcome = Returned(<<>>)

\* the threats of the current call that come from the custom delimiters
CustomThreats ==
  SubSeq(threats, Len(detect(input.text, allPatternsToCheck(Config))) + 1, Len(threats))

\* the delimiter is in the text at token i, letter for letter
OccursAt(text, delimiter, i) ==
  /\ i + Len(delimiter) - 1 <= Len(text)
  /\ \A k \in 1..Len(delimiter) : text[i + k - 1] = delimiter[k]

\* the positions where the delimiter occurs
OccurrencesOf(text, delimiter) == {i \in 1..Len(text) : OccursAt(text, delimiter, i)}

\* C14 (as claimed): one delimiterInjection threat per occurrence: a text
\* that holds a configured delimiter k times yields k threats for it.
C14_OneThreatPerOccurrence ==
  Categorized =>
    \A d \in Range(Config.customDelimiters) :
      Cardinality({k \in DOMAIN CustomThreats : CustomThreats[k].match = d})
        = Cardinality(OccurrencesOf(input.text, d))

\* C14 (amended): custom-delimiter detection is exact, case-sensitive search
\* and yields one delimiterInjection threat of severity 0.95 for each
\* configured delimiter that occurs in the text, in the order of the
\* configuration, with the position of the first occurrence, however often
\* the delimiter occurs; a delimiter that does not occur yields none.
C14_OneThreatPerDelimiter ==
  Categorized =>
    LET present == SelectSeq(Config.customDelimiters,
                             LAMBDA d : OccurrencesOf(input.text, d) # {})
    IN /\ Len(CustomThreats) = Len(present)
       /\ \A k \in DOMAIN CustomThreats :
            LET first == CHOOSE i \in OccurrencesOf(input.text, present[k]) :
                           \A j \in OccurrencesOf(input.text, present[k]) : i <= j
            IN /\ CustomThreats[k].type = "delimiterInjection"
               /\ CustomThreats[k].severity = 95
               /\ CustomThreats[k].match = present[k]
               /\ CustomThreats[k].position = Offset(input.text, first)

\* two delimiters configured, one of them twice in the text and the other
\* once in its own case and once in upper case: two threats
C14_Witness ==
  /\ Categorized
  /\ Len(Config.customDelimiters) = 2
  /\ input.text = << "HI", "@@", "hi", "@@" >>
  /\ Len(CustomThreats) = 2
  /\ CustomThreats[1].position = 4
  /\ CustomThreats[2].position = 2

\* C15 (as claimed): with custom delimiters configured and delimiterInjection
\* set to sanitize, a text that parse returns holds none of the configured
\* delimiters.
C15_CustomDelimitersRemoved ==
  (/\ pc = "done"
   /\ outcome.kind = "return"
   /\ Len(Config.customDelimiters) > 0
   /\ Config.threatActions["delimiterInjection"] = "sanitize") =>
    \A d \in Range(Config.customDelimiters) : OccurrencesOf(outcome.text, d) = {}

RECURSIVE PassN(_, _, _)
\* the text after n sanitization passes
PassN(text, ths, n) ==
  IF n = 0 THEN text ELSE applySanitizationPass(PassN(text, ths, n - 1), ths)

\* a pass that changes nothing comes before the cap of 5 passes is reached
FixedBeforeCap(text, ths) ==
  \E n \in 0..4 : applySanitizationPass(PassN(text, ths, n), ths) = PassN(text, ths, n)

\* C16 Idempotence at fixed point: when sanitize reaches a fixed point before
\* the 5-pass cap, sanitize called again on the text it returned, with the
\* same threat list, returns that text unchanged.
C16_FixedPointIdempotence ==
  [][ (/\ pc = "sanitized" /\ pc' = "sanitized again"
       /\ FixedBeforeCap(input.text, buckets.toSanitize)) =>
        sanitized' = sanitized ]_vars

\* a text that two passes changed and a third left alone, sanitized again
C16_Witness ==
  /\ pc = "sanitized again"
  /\ FixedBeforeCap(input.text, buckets.toSanitize)
  /\ PassN(input.text, buckets.toSanitize, 1) # input.text
  /\ PassN(input.text, buckets.toSanitize, 2) # PassN(input.text, buckets.toSanitize, 1)
  /\ sanitized = PassN(input.text, buckets.toSanitize, 2)

\* C17 Length: one pass of the delimiter strategy or of the encoding strategy
\* returns a text that is not longer than its input, the placeholders and
\* the dash of a neutralized marker included.
C17_NeverLonger ==
  pc \in {"delimiters", "encoding"} => StrLen(sanitized) <= StrLen(input.text)

\* five entities, 20 characters, replaced by the 16 characters of a placeholder
C17_Witness ==
  /\ pc = "encoding"
  /\ input.text = Repeat("&#1;", 5)
  /\ sanitized = << "[ENTITY_REMOVED]" >>
  /\ StrLen(sanitized) = StrLen(input.text) - 4

\* C18 Blocked threats: when the first categorization blocks, the error that
\* parse raises carries the threats at or above the threshold whose type is
\* blocked, all of them and in the order of detection, and none that is below
\* the threshold or has another action.
C18_ErrorCarriesToBlock ==
  (Categorized /\ Len(buckets.toBlock) > 0) =>
    /\ pc = "done"
    /\ outcome = ThrownInjection(Routed("block"))
    /\ outcome.threats = buckets.toBlock
    /\ spResult.threats = Routed("block")

C18_Witness ==
  /\ pc = "done"
  /\ outcome.kind = "PromptInjectionError"
  /\ Len(outcome.threats) = 2
  /\ Len(buckets.toSanitize) > 0
  /\ \E k \in DOMAIN threats : threats[k].severity < Config.threshold
  /\ Len(threats) > Len(outcome.threats) + Len(buckets.toSanitize)

\* C19 Pass-through: when the first categorization blocks nothing and has
\* nothing to sanitize, neither the sanitizer nor a second detection runs and
\* parse returns its input as it is, also when threats were detected that are
\* below the threshold, warned or allowed.
C19_PassThrough ==
  (Categorized /\ Len(buckets.toBlock) = 0 /\ Len(buckets.toSanitize) = 0) =>
    /\ pc = "done"
    /\ outcome = Returned(input.text)
    /\ spResult.safe /\ spResult.data = input.text
    /\ passes = 0
    /\ recheck = NoBuckets
    /\ phases = << "checkLength", "detect", "categorizeThreats" >>

\* a warned threat and an allowed one, both at or above the threshold
C19_Witness ==
  /\ pc = "done"
  /\ outcome = Returned(input.text)
  /\ input.text # <<>>
  /\ Len(buckets.toWarn) > 0
  /\ \E k \in DOMAIN threats :
       /\ threats[k].severity >= Config.threshold
       /\ Config.threatActions[threats[k].type] = "allow"

\* the builder the step has created
NewBuilder == builders'[Len(builders')]

\* C20 Total action map: in every configuration each of the five threat
\* types has exactly one action, and a block/sanitize/warn/allow call gives a
\* configuration that differs from its receiver in the action of one threat
\* type at most and in nothing else.
C20_ThreatActionsTotal ==
  [][ /\ \A i \in DOMAIN builders' :
           /\ DOMAIN builders'[i].threatActions = ThreatType
           /\ \A t \in ThreatType : builders'[i].threatActions[t] \in ThreatAction
      /\ builders' # builders =>
           \E i \in DOMAIN builders, t \in ThreatType :
             /\ \A u \in ThreatType \ {t} :
                  NewBuilder.threatActions[u] = builders[i].threatActions[u]
             /\ \A f \in ConfigFields \ {"threatActions"} :
                  NewBuilder[f] = builders[i][f]
    ]_vars

\* from the lenient preset, two calls on two threat types, one after the other
C20_Witness ==
  /\ Len(builders) = 3
  /\ builders[1] = VardBuilder(LENIENT_PRESET)
  /\ builders[3].threatActions =
       [t \in ThreatType |->
          CASE t = "systemPromptLeak" -> "allow"
            [] t = "encoding" -> "block"
            [] OTHER -> LENIENT_PRESET.threatActions[t]]

\* the custom-pattern severities of a configuration, in list order
Severities(config) ==
  [k \in DOMAIN config.customPatterns |-> config.customPatterns[k].severity]

\* C21 as stated: in every configuration the threshold and the severity of
\* every custom pattern lie in [0,1], values outside being clamped on write.
C21_AllClamped ==
  \A i \in DOMAIN builders :
    /\ builders[i].threshold \in 0..100
    /\ \A k \in DOMAIN builders[i].customPatterns :
         builders[i].customPatterns[k].severity \in 0..100

\* C21 Only the threshold is clamped: in every configuration the threshold
\* lies in [0,1], and threshold(v) stores the value of [0,1] nearest to v;
\* pattern() and patterns() append the severities exactly as supplied, also
\* when they lie outside [0,1], and leave the threshold as it was.
C21_ThresholdClamped ==
  [][ /\ \A i \in DOMAIN builders' : builders'[i].threshold \in 0..100
      /\ \A i \in DOMAIN builders, v \in RangeArgs :
           /\ threshold(i, v) =>
                /\ \A c \in 0..100 :
                     (v - NewBuilder.threshold) * (v - NewBuilder.threshold)
                       <= (v - c) * (v - c)
                /\ Severities(NewBuilder) = Severities(builders[i])
           /\ pattern(i, hiPattern.regex, v, hiPattern.type) =>
                /\ Severities(NewBuilder) = Append(Severities(builders[i]), v)
                /\ NewBuilder.threshold = builders[i].threshold
           /\ patterns(i, << hiPattern, [hiPattern EXCEPT !.severity = v] >>) =>
                /\ Severities(NewBuilder) =
                     Severities(builders[i]) \o << hiPattern.severity, v >>
                /\ NewBuilder.threshold = builders[i].threshold
    ]_vars

\* threshold(-0.2) has stored 0, and pattern() called on the result with the
\* severity 1.5 has stored 1.5
C21_Witness ==
  /\ Len(builders) = 3
  /\ builders[2].threshold = 0
  /\ builders[3].threshold = 0
  /\ Severities(builders[3]) = << 150 >>

\* C22 Type contract: a call with a non-string input runs no length check and
\* no detection, finds no threat, and ends in a TypeError that carries no
\* threat, under every configuration.
C22_TypeContract ==
  (self # 0 /\ ~input.isString) =>
    /\ pc \in {"start", "done"}
    /\ phases = <<>>
    /\ threats = <<>>
    /\ buckets = NoBuckets
    /\ pc = "done" =>
         /\ outcome = ThrownTypeError
         /\ outcome.kind # "PromptInjectionError"
         /\ outcome.threats = <<>>

\* a non-string input has been rejected under a configuration with the small
\* length limit, custom delimiters and the threshold 0.95
C22_Witness ==
  /\ pc = "done"
  /\ self # 0
  /\ ~input.isString
  /\ outcome.kind = "TypeError"
  /\ Config.maxLength = SmallLength
  /\ Config.threshold = 95
  /\ Len(Config.customDelimiters) = 2

\* the threat "start over" raises: instructionOverride, severity 0.75, at offset 0
StartOverThreat ==
  [type |-> "instructionOverride", severity |-> 75,
   match |-> << "start over" >>, position |-> 0]

\* C23 Preset ordering: parse("start over") fails under the strict preset and
\* under the moderate preset, with the one instructionOverride threat of
\* severity 0.75, and returns the input unchanged under the lenient preset.
C23_PresetOrdering ==
  (pc = "done" /\ input = String(<< "start over" >>)) =>
    /\ Config \in {VardBuilder(STRICT_PRESET), VardBuilder(MODERATE_PRESET)} =>
         /\ threats = << StartOverThreat >>
         /\ outcome = ThrownInjection(<< StartOverThreat >>)
    /\ Config = VardBuilder(LENIENT_PRESET) =>
         /\ threats = << StartOverThreat >>
         /\ outcome = Returned(<< "start over" >>)

\* the call has ended under the lenient preset with the threat detected and the
\* input returned
C23_Witness ==
  /\ pc = "done"
  /\ input = String(<< "start over" >>)
  /\ Config = VardBuilder(LENIENT_PRESET)
  /\ threats = << StartOverThreat >>
  /\ outcome.kind = "return"

\* C24 Zero-width removal: with encoding set to sanitize, a text returned by
\* parse holds no zero-width character.
C24_ZeroWidthRemoved ==
  ( /\ pc = "done"
    /\ outcome.kind = "return"
    /\ Config.threatActions["encoding"] = "sanitize" ) =>
    "ZWSP" \notin Range(outcome.text)

\* C25 Colon marker: under a configuration that sanitizes delimiterInjection
\* at the threshold 0.7, parse("SYSTEM: malicious content") returns
\* "SYSTEM- malicious content".
C25_ColonBecomesDash ==
  ( /\ pc = "done"
    /\ input = String(<< "SYSTEM", ":", " malicious content" >>)
    /\ Config.threatActions["delimiterInjection"] = "sanitize"
    /\ Config.threshold = 70
    /\ Config.maxLength = MODERATE_PRESET.maxLength ) =>
    outcome = Returned(<< "SYSTEM", "-", " malicious content" >>)

\* the phases of a call that has run k sanitization passes
FirstRound == << "checkLength", "detect", "categorizeThreats" >>

SanitizedRound(k) == FirstRound \o Repeat("applySanitizationPass", k)

RecheckedRound(k) == SanitizedRound(k) \o << "detect", "categorizeThreats" >>

\* C26 Phase order: a call on a non-blank string runs the length check, then
\* detection and categorization, then either fails on toBlock or, only when
\* toSanitize is non-empty, runs one to five sanitization passes followed by
\* re-detection and re-categorization; it ends in exactly one outcome, a
\* failure that carries threats or the return of the whole text; and a call
\* starts with none of the locals of an earlier call.
C26_PhaseOrder ==
  /\ pc \in {"idle", "start"} =>
       /\ phases = <<>> /\ threats = <<>> /\ buckets = NoBuckets
       /\ sanitized = <<>> /\ iterations = 0 /\ passes = 0
       /\ recheck = NoBuckets /\ outcome = Pending
  /\ (self # 0 /\ input.isString /\ ~IsBlank(input.text)) =>
       /\ pc = "detect" => phases = << "checkLength" >>
       /\ pc = "sanitize" =>
            /\ \E k \in 0..(maxIterations - 1) : phases = SanitizedRound(k)
            /\ Len(buckets.toSanitize) > 0
            /\ Len(buckets.toBlock) = 0
       /\ pc = "recheck" =>
            /\ \E k \in 1..maxIterations : phases = SanitizedRound(k)
            /\ Len(buckets.toSanitize) > 0
       /\ pc # "done" => outcome = Pending
       /\ pc = "done" =>
            \/ /\ phases = << "checkLength" >>
               /\ outcome.kind = "PromptInjectionError"
               /\ Len(outcome.threats) = 1
            \/ /\ phases = FirstRound
               /\ Len(buckets.toBlock) > 0
               /\ outcome = ThrownInjection(buckets.toBlock)
            \/ /\ phases = FirstRound
               /\ Len(buckets.toBlock) = 0
               /\ Len(buckets.toSanitize) = 0
               /\ outcome = Returned(input.text)
            \/ /\ \E k \in 1..maxIterations : phases = RecheckedRound(k)
               /\ Len(buckets.toBlock) = 0
               /\ Len(buckets.toSanitize) > 0
               /\ \/ Len(recheck.toBlock) > 0 /\ outcome = ThrownInjection(recheck.toBlock)
                  \/ Len(recheck.toBlock) = 0 /\ outcome = Returned(sanitized)

\* a call on a derived configuration has ended after three sanitization
\* passes, re-detection and re-categorization, with the cleaned text
C26_Witness ==
  /\ pc = "done"
  /\ phases = RecheckedRound(3)
  /\ input = String(Nested(2))
  /\ outcome = Returned(<<>>)
  /\ Len(builders) > 1

\* detection of a call that runs alone, on the catalog as the module loads it
DetectAlone(text, config) ==
  detect(text, allPatterns \o config.customPatterns)
    \o (IF Len(config.customDelimiters) > 0
        THEN detectCustomDelimiters(text, config.customDelimiters)
        ELSE <<>>)

\* the outcome of parse(in) under config when no other call is ever made
ParseAlone(config, in) ==
  IF ~in.isString THEN ThrownTypeError
  ELSE IF IsBlank(in.text) THEN Returned(<<>>)
  ELSE IF checkLength(in.text, config.maxLength) # NoThreat
  THEN ThrownInjection(checkLength(in.text, config.maxLength))
  ELSE LET cat == categorizeThreats(DetectAlone(in.text, config), config)
           result == Sanitize(in.text, cat.toSanitize)
           again == categorizeThreats(DetectAlone(result, config), config)
       IN IF Len(cat.toBlock) > 0 THEN ThrownInjection(cat.toBlock)
          ELSE IF Len(cat.toSanitize) = 0 THEN Returned(in.text)
          ELSE IF Len(again.toBlock) > 0 THEN ThrownInjection(again.toBlock)
          ELSE Returned(result)

\* C27 No shared writes: no step of a call changes a configuration or the
\* pattern catalog (its patterns and the lastIndex of its regular
\* expressions), a builder call changes neither the catalog nor an existing
\* configuration, and whatever calls were made before on whatever
\* configuration, a call ends in the outcome it has when it runs alone.
C27_NoSharedWrites ==
  [][ /\ catalog' = catalog
      /\ pc # "idle" => builders' = builders
      /\ \A i \in DOMAIN builders : builders'[i] = builders[i]
      /\ pc' = "done" =>
           /\ outcome' = ParseAlone(builders'[self'], input')
           /\ spResult' = safeParse(ParseAlone(builders'[self'], input'))
    ]_vars

\* a call on a configuration without custom patterns has found nothing in a
\* text that a custom pattern of another configuration matches
C27_Witness ==
  /\ pc = "done"
  /\ Len(builders) = 3
  /\ builders[2].customPatterns # <<>>
  /\ builders[3].customPatterns = <<>>
  /\ self = 3
  /\ input = String(<< "hi", "@@" >>)
  /\ threats = <<>>
  /\ outcome = Returned(input.text)
  /\ catalog = CatalogAsLoaded

\* C28 as stated: the configuration returned by pattern(), patterns() or
\* delimiters() holds every custom pattern and every custom delimiter of its
\* receiver plus the newly supplied ones.
C28_AllAccumulate ==
  [][ \A i \in DOMAIN builders :
        /\ ( \/ pattern(i, hiPattern.regex, hiPattern.severity, hiPattern.type)
             \/ patterns(i, << hiPattern >>) ) =>
             /\ Range(builders[i].customPatterns) \cup {hiPattern}
                  \subseteq Range(NewBuilder.customPatterns)
             /\ Range(builders[i].customDelimiters)
                  \subseteq Range(NewBuilder.customDelimiters)
        /\ \A d \in DelimiterArgs :
             delimiters(i, d) =>
               /\ Range(builders[i].customPatterns)
                    \subseteq Range(NewBuilder.customPatterns)
               /\ Range(builders[i].customDelimiters) \cup Range(d)
                    \subseteq Range(NewBuilder.customDelimiters)
    ]_vars

\* C28 Patterns accumulate, delimiters are replaced: pattern() and patterns()
\* return the custom patterns of the receiver followed by the new ones and
\* keep its custom delimiters; delimiters() returns exactly the delimiters of
\* this call, dropping those of the receiver, and keeps its custom patterns;
\* a call then detects the custom delimiters of its own configuration only.
C28_DelimitersReplaced ==
  [][ /\ \A i \in DOMAIN builders :
           /\ pattern(i, hiPattern.regex, hiPattern.severity, hiPattern.type) =>
                /\ NewBuilder.customPatterns =
                     Append(builders[i].customPatterns, hiPattern)
                /\ NewBuilder.customDelimiters = builders[i].customDelimiters
           /\ patterns(i, << hiPattern >>) =>
                /\ NewBuilder.customPatterns =
                     builders[i].customPatterns \o << hiPattern >>
                /\ NewBuilder.customDelimiters = builders[i].customDelimiters
           /\ \A d \in DelimiterArgs :
                delimiters(i, d) =>
                  /\ NewBuilder.customDelimiters = d
                  /\ NewBuilder.customPatterns = builders[i].customPatterns
      /\ (pc' = "done" /\ "detect" \in Range(phases')) =>
           LET custom == SubSeq(threats',
                                Len(detect(input'.text,
                                           allPatterns \o builders'[self'].customPatterns)) + 1,
                                Len(threats'))
           IN \A k \in DOMAIN custom :
                custom[k].match \in Range(builders'[self'].customDelimiters)
    ]_vars

\* on a configuration made by delimiters(["hi"]) after delimiters(["@@"]) a
\* call on "hi@@" has found the delimiter "hi" and not the delimiter "@@"
C28_Witness ==
  /\ pc = "done"
  /\ Len(builders) = 3
  /\ builders[2].customDelimiters = << << "@@" >> >>
  /\ builders[3].customDelimiters = << << "hi" >> >>
  /\ self = 3
  /\ input = String(<< "hi", "@@" >>)
  /\ \E k \in DOMAIN threats : threats[k].match = << "hi" >>
  /\ \A k \in DOMAIN threats : threats[k].match # << "@@" >>

\* the text without the first occurrence of the literal (the text itself when
\* the literal is empty or does not occur in it)
WithoutFirst(text, literal) ==
  IF literal = <<>> \/ OccurrencesOf(text, literal) = {} THEN text
  ELSE LET first == CHOOSE i \in OccurrencesOf(text, literal) :
                      \A j \in OccurrencesOf(text, literal) : i <= j
       IN SubSeq(text, 1, first - 1) \o SubSeq(text, first + Len(literal), Len(text))

RECURSIVE DeleteInOrder(_, _)
\* for each threat of the list in turn, the first occurrence of its match deleted
DeleteInOrder(text, ths) ==
  IF ths = <<>> THEN text
  ELSE DeleteInOrder(WithoutFirst(text, Head(ths).match), Tail(ths))

\* the threats ordered by the first appearance of their type in the list, and
\* within one type by their place in the list
GroupedByType(ths) ==
  LET FirstOf(type) == CHOOSE k \in DOMAIN ths :
                         /\ ths[k].type = type
                         /\ \A j \in DOMAIN ths : ths[j].type = type => k <= j
      Key(k) == FirstOf(ths[k].type) * (Len(ths) + 1) + k
      order == SortSeq([k \in DOMAIN ths |-> k], LAMBDA a, b : Key(a) < Key(b))
  IN [k \in DOMAIN ths |-> ths[order[k]]]

\* the threats given to the pass
PassThreats == buckets.toSanitize

\* C29 as stated: one pass deletes, for each threat in list order, the first
\* occurrence of its exact match and changes nothing else.
C29_DeletedInListOrder ==
  pc = "pass" => sanitized = DeleteInOrder(input.text, PassThreats)

\* C29 Targeted removal, by type: one pass takes the threats type by type, the
\* types in the order of their first appearance in the list and the threats of
\* one type in list order, and deletes for each threat the first occurrence
\* of its exact match (case-sensitive) in the current text, nothing else; with
\* threats of a single type that is the list order.
C29_DeletedByTypeInListOrder ==
  pc = "pass" =>
    /\ sanitized = DeleteInOrder(input.text, GroupedByType(PassThreats))
    /\ (\A k \in DOMAIN PassThreats : PassThreats[k].type = PassThreats[1].type) =>
         sanitized = DeleteInOrder(input.text, PassThreats)

\* the pass has deleted the first "hi" of "hi@@hi" and then "@@", both
\* instructionOverride, before it looked for the roleManipulation match "@@hi"
C29_Witness ==
  /\ pc = "pass"
  /\ input = String(<< "hi", "@@", "hi" >>)
  /\ PassThreats = << [type |-> "instructionOverride", severity |-> 80,
                       match |-> << "hi" >>, position |-> 0],
                      [type |-> "roleManipulation", severity |-> 80,
                       match |-> << "@@", "hi" >>, position |-> 2],
                      [type |-> "instructionOverride", severity |-> 80,
                       match |-> << "@@" >>, position |-> 2] >>
  /\ sanitized = << "hi" >>

RECURSIVE IsMatchStart(_, _, _)
\* the regex matches at token i, and no match of it that starts further left
\* reaches over token i
IsMatchStart(regex, text, i) ==
  /\ MatchLen(regex, text, i) > 0
  /\ \A j \in 1..(i - 1) :
       IsMatchStart(regex, text, j) => j + MatchLen(regex, text, j) <= i

\* one threat per non-overlapping match of the pattern, from left to right
MatchesOf(onePattern, text) ==
  LET starts == SelectSeq([i \in 1..Len(text) |-> i],
                          LAMBDA i : IsMatchStart(onePattern.regex, text, i))
  IN [k \in DOMAIN starts |->
        [type |-> onePattern.type,
         severity |-> onePattern.severity,
         match |-> SubSeq(text, starts[k],
                          starts[k] + MatchLen(onePattern.regex, text, starts[k]) - 1),
         position |-> StrLen(SubSeq(text, 1, starts[k] - 1))]]

RECURSIVE MatchesOfAll(_, _, _)
\* the matches of the patterns k, k + 1, ... of the list, pattern after pattern
MatchesOfAll(list, text, k) ==
  IF k > Len(list) THEN <<>>
  ELSE MatchesOf(list[k], text) \o MatchesOfAll(list, text, k + 1)

\* C30 Detection: the threats of a call are, pattern after pattern in list
\* order (catalog, then custom patterns) and match after match from left to
\* right, one threat for every non-overlapping match, with the pattern's type
\* and severity, the matched text and its zero-based offset; matches of
\* different patterns on the same text are all kept; the custom-delimiter
\* threats follow them.
C30_DetectAllMatches ==
  "detect" \in Range(phases) =>
    threats =
      MatchesOfAll(allPatterns \o Config.customPatterns, input.text, 1)
        \o (IF Len(Config.customDelimiters) > 0
            THEN detectCustomDelimiters(input.text, Config.customDelimiters)
            ELSE <<>>)

\* on two directional overrides the run pattern has reported one match of
\* both, and the single-character pattern one match for each of them, the
\* first at the same offset as the run
C30_Witness ==
  /\ "detect" \in Range(phases)
  /\ input = String(<< "RLO", "RLO" >>)
  /\ threats =
       << [type |-> "encoding", severity |-> 90, match |-> << "RLO", "RLO" >>, position |-> 0],
          [type |-> "encoding", severity |-> 95, match |-> << "RLO" >>, position |-> 0],
          [type |-> "encoding", severity |-> 95, match |-> << "RLO" >>, position |-> 1] >>

====
